---- MODULE Spec2Model ----
(***************************************************************************)
(* Model of the job-tracking and preview-clock components of the           *)
(* ai-video-maker frontend:                                                *)
(*   - VideoTimeline.js : the preview clock and the scene resolver         *)
(*   - VideoPreview.js  : submit a video job and poll its status (2 s)     *)
(*   - VideoExport.js   : poll a job's status for the export page (3 s)    *)
(*                                                                         *)
(* React is modelled at the granularity of one event handler: a handler,   *)
(* the re-render it triggers and the effects of that render form one       *)
(* action.  Time is counted in integer units; the durations <<10, 6, 4>>   *)
(* stand for 5 s, 3 s and 2 s at half a second per unit.                   *)
(***************************************************************************)
EXTENDS Integers, Sequences, FiniteSets, TLC

(***************************************************************************)
(* Bounds of the model.                                                    *)
(***************************************************************************)
MaxScenes == 2
MaxDur == 2
MaxDelta == 3
MaxJobs == 3
MaxInFlight == 2
MaxNotify == 2
MaxItems == 2
MaxDispatch == 3

VARIABLES
    \* ---- VideoTimeline ----
    script,          \* script.scenes, as the sequence of scene durations
    isPlaying,       \* useState(false)
    currentTime,     \* useState(0)
    totalDuration,   \* useState(0), set by the effect on [script]
    isDragging,      \* useState(false)
    currentScene,    \* prop, owned by the parent (VideoPreview.currentScene)
    rafRef,          \* TRUE when an animation frame callback is requested
    lastTickRef,     \* TRUE when lastTickRef.current holds a timestamp
    tlOp,            \* the VideoTimeline operation of the last step
    tlCalls,         \* indices passed to onSceneChange by the last step
    tlDelta,         \* deltaMs / 1000 of the last step when it is a tick, else 0
    \* ---- the renderer (server side of createJob / getJobStatus) ----
    srvStatus,       \* job id -> "absent" | "processing" | "completed" | "failed"
    \* ---- VideoPreview ----
    vpLoading,       \* useState(false)
    vpVideoId,       \* useState(null); 0 stands for null
    vpVideoStatus,   \* useState(null); "null" stands for null
    vpProgress,      \* useState(0)
    vpCreates,       \* POST /video/create requests awaiting their response
    vpChecks,        \* GET /video/status/{id} in flight: <<id, answer>> -> count
    vpNotified,      \* job id -> number of onVideoCreated(id) calls (saturating)
    vpOp,            \* the VideoPreview operation of the last step
    vpResp,          \* the status response handled by the last step
    \* ---- VideoExport ----
    exVideoInfo,     \* useState(null): the status field of videoInfo, or "null"
    exIsPolling,     \* useState(false)
    exShowFailureModal, \* useState(false)
    exHasAnnounced,  \* hasAnnouncedRef.current
    exIntervalRef,   \* TRUE when pollingIntervalRef.current holds a timer
    exTimers,        \* number of interval timers that exist
    exChecks,        \* GET /video/status/{id} in flight: <<id, answer>> -> count
    exHeads,         \* HEAD preview_url requests in flight
    exAnnounced,     \* number of 'ready' announcements (saturating)
    exStopped,       \* a terminal response was applied and no retry followed
    exOp,            \* the VideoExport operation of the last step
    exResp,          \* the status response handled by the last step
    \* ---- the axios instance `api` and its response interceptor ----
    apiPhase,        \* "idle" | "sent" | "backoff" | "resolved" | "rejected"
    apiMethod,       \* config.method of the request
    apiRetryCount,   \* config._retryCount
    apiError,        \* the error of the last failed attempt
    apiSends,        \* number of times the request was put on the wire
    apiDelays,       \* the backoff delays waited so far, in ms
    apiMessage,      \* the text last shown by message.error
    apiOp,           \* the operation of the last step
    \* ---- VideoDownload ----
    dlCheck,         \* "pending" while the status request of the mount effect is in flight
    dlStatus,        \* data.status of the response checkVideoStatus received, or "null"
    dlDownloadUrl,   \* useState(''): the local locator
    dlCloudDownloadUrl, \* useState(''): the cloud locator
    dlShareModalVisible, \* useState(false)
    dlSaved,         \* link.href of the last save that was triggered, or "none"
    dlDid,           \* what the last step did: save, copy, share, success, error
    dlOp,            \* the VideoDownload operation of the last step
    \* ---- AppContext: the state held by useReducer(appReducer, initialState) ----
    stState,         \* the state object
    stOp,            \* action.type of the last dispatch
    stCount          \* number of actions dispatched so far

tlVars == <<script, isPlaying, currentTime, totalDuration, isDragging,
            currentScene, rafRef, lastTickRef, tlOp, tlCalls, tlDelta>>

vpVars == <<vpLoading, vpVideoId, vpVideoStatus, vpProgress, vpCreates,
            vpChecks, vpNotified, vpOp, vpResp>>

exVars == <<exVideoInfo, exIsPolling, exShowFailureModal, exHasAnnounced,
            exIntervalRef, exTimers, exChecks, exHeads, exAnnounced, exStopped,
            exOp, exResp>>

apiVars == <<apiPhase, apiMethod, apiRetryCount, apiError, apiSends, apiDelays,
             apiMessage, apiOp>>

dlVars == <<dlCheck, dlStatus, dlDownloadUrl, dlCloudDownloadUrl,
            dlShareModalVisible, dlSaved, dlDid, dlOp>>

stVars == <<stState, stOp, stCount>>

vars == <<tlVars, srvStatus, vpVars, exVars, apiVars, dlVars, stVars>>

\* what the steps of one component leave alone
notTimeline == <<srvStatus, vpVars, exVars, apiVars, dlVars, stVars>>
notPreview == <<tlVars, exVars, apiVars, dlVars, stVars>>
notExport == <<tlVars, vpVars, apiVars, dlVars, stVars>>
notApi == <<tlVars, srvStatus, vpVars, exVars, dlVars, stVars>>
notDownload == <<tlVars, srvStatus, vpVars, exVars, apiVars, stVars>>
notStore == <<tlVars, srvStatus, vpVars, exVars, apiVars, dlVars>>

(***************************************************************************)
(* VideoTimeline: scene table and resolver.                                *)
(***************************************************************************)
RECURSIVE SumTo(_, _)
\* sum of the first k durations of s
SumTo(s, k) == IF k = 0 THEN 0 ELSE SumTo(s, k - 1) + s[k]

\* getSceneInfo()[i].startTime, i counted from 0
startTime(s, i) == SumTo(s, i)

\* getSceneInfo()[i].endTime = startTime + scene.duration
endTime(s, i) == startTime(s, i) + s[i + 1]

RECURSIVE SceneLoopEndInclusive(_, _, _)
\* the loop with the boundary given to the scene that ends there
SceneLoopEndInclusive(s, time, i) ==
    IF i >= Len(s) THEN 0
    ELSE IF time >= startTime(s, i) /\ time <= endTime(s, i) THEN i
    ELSE SceneLoopEndInclusive(s, time, i + 1)

RECURSIVE SceneLoop(_, _, _)
\* the for loop of getCurrentSceneIndex, from index i on
SceneLoop(s, time, i) ==
    IF i >= Len(s) THEN 0
    ELSE IF time >= startTime(s, i) /\ time < endTime(s, i) THEN i
    ELSE SceneLoop(s, time, i + 1)

getCurrentSceneIndex(s, time) == SceneLoop(s, time, 0)

\* the reduce of the effect on [script]
Total(s) == SumTo(s, Len(s))

RECURSIVE SeqsUpTo(_, _)
SeqsUpTo(S, n) ==
    IF n = 0 THEN {<<>>}
    ELSE LET shorter == SeqsUpTo(S, n - 1)
         IN  shorter \cup {Append(q, d) : q \in {r \in shorter : Len(r) = n - 1}, d \in S}

\* the scene lists the clock is run against
Scripts == SeqsUpTo(1..MaxDur, MaxScenes) \cup {<<10, 6, 4>>}

(***************************************************************************)
(* VideoTimeline: the clock.                                               *)
(***************************************************************************)
\* the playback effect (deps include isPlaying and isDragging): an animation
\* frame is requested only while playing and not dragging, otherwise the
\* pending frame is cancelled and lastTickRef is cleared
PlaybackEffectNoDragCheck(playing, dragging, lastTick) ==
    [raf |-> playing, lastTick |-> IF playing THEN lastTick ELSE FALSE]

PlaybackEffect(playing, dragging, lastTick) ==
    [raf |-> playing /\ ~dragging,
     lastTick |-> IF playing /\ ~dragging THEN lastTick ELSE FALSE]

\* the value returned by the updater passed to setCurrentTime in tick
TickTimeNoClamp(prev, delta, total) == prev + delta

TickTime(prev, delta, total) ==
    IF prev + delta >= total THEN 0 ELSE prev + delta

\* the parent's handleSceneChange stores every index it is called with
Publish(calls) ==
    /\ tlCalls' = calls
    /\ currentScene' = IF calls = <<>> THEN currentScene ELSE calls[Len(calls)]

RunPlaybackEffect ==
    LET e == PlaybackEffect(isPlaying', isDragging', lastTickRef)
    IN  /\ rafRef' = e.raf
        /\ lastTickRef' = e.lastTick

\* the isPlaying left by tick: setIsPlaying(false) when the end is reached
TickPlayingLoops(prev, delta, total, playing) == playing

TickPlaying(prev, delta, total, playing) ==
    IF prev + delta >= total THEN FALSE ELSE playing

\* the onSceneChange calls of tick: none at the end of the timeline,
\* otherwise one when the resolved index differs from currentScene
TickCallsEveryTick(s, prev, delta, total, scene) ==
    IF prev + delta >= total THEN <<>>
    ELSE <<getCurrentSceneIndex(s, prev + delta)>>

TickCalls(s, prev, delta, total, scene) ==
    IF prev + delta >= total THEN <<>>
    ELSE LET newSceneIndex == getCurrentSceneIndex(s, prev + delta)
         IN  IF newSceneIndex # scene THEN <<newSceneIndex>> ELSE <<>>

\* one animation frame: deltaMs is 0 on the first frame after (re)starting
tick(delta) ==
    /\ rafRef
    /\ LET d == IF lastTickRef THEN delta ELSE 0
           e == PlaybackEffect(isPlaying', isDragging', TRUE)
       IN  /\ currentTime' = TickTime(currentTime, d, totalDuration)
           /\ isPlaying' = TickPlaying(currentTime, d, totalDuration, isPlaying)
           /\ Publish(TickCalls(script, currentTime, d, totalDuration, currentScene))
           /\ isDragging' = isDragging
           /\ rafRef' = e.raf
           /\ lastTickRef' = e.lastTick
           /\ tlDelta' = d
    /\ tlOp' = "tick"
    /\ UNCHANGED notTimeline
    /\ UNCHANGED <<script, totalDuration>>

handlePlayPause ==
    /\ isPlaying' = ~isPlaying
    /\ isDragging' = isDragging
    /\ RunPlaybackEffect
    /\ Publish(<<>>)
    /\ tlOp' = "handlePlayPause"
    /\ tlDelta' = 0
    /\ UNCHANGED notTimeline
    /\ UNCHANGED <<script, totalDuration, currentTime>>

\* Slider onBeforeChange: the drag begins
handleSliderBeforeChange ==
    /\ ~isDragging
    /\ isDragging' = TRUE
    /\ isPlaying' = isPlaying
    /\ RunPlaybackEffect
    /\ Publish(<<>>)
    /\ tlOp' = "handleSliderBeforeChange"
    /\ tlDelta' = 0
    /\ UNCHANGED notTimeline
    /\ UNCHANGED <<script, totalDuration, currentTime>>

\* the onSceneChange calls of handleSliderChange: it only sets the time
SliderChangeCallsResolved(s, value) == <<getCurrentSceneIndex(s, value)>>

SliderChangeCalls(s, value) == <<>>

\* Slider onChange during the drag; the Slider has min 0 and max totalDuration
handleSliderChange(value) ==
    /\ isDragging
    /\ value \in 0..totalDuration
    /\ currentTime' = value
    /\ Publish(SliderChangeCalls(script, value))
    /\ tlOp' = "handleSliderChange"
    /\ tlDelta' = 0
    /\ UNCHANGED notTimeline
    /\ UNCHANGED <<script, totalDuration, isPlaying, isDragging, rafRef, lastTickRef>>

\* Slider onAfterChange: the drag ends at the slider's value, which is
\* currentTime (the Slider is controlled by value={currentTime})
handleSliderAfterChange ==
    /\ isDragging
    /\ isDragging' = FALSE
    /\ isPlaying' = isPlaying
    /\ RunPlaybackEffect
    /\ Publish(<<getCurrentSceneIndex(script, currentTime)>>)
    /\ tlOp' = "handleSliderAfterChange"
    /\ tlDelta' = 0
    /\ UNCHANGED notTimeline
    /\ UNCHANGED <<script, totalDuration, currentTime>>

\* the jump landing on the end of the target scene instead of its start
SceneEndOr(s, newScene, time) ==
    IF newScene >= 0 /\ newScene < Len(s) THEN endTime(s, newScene) ELSE time

\* setCurrentTime(scenes[newScene].startTime) when scenes[newScene] exists
SceneStartOr(s, newScene, time) ==
    IF newScene >= 0 /\ newScene < Len(s) THEN startTime(s, newScene) ELSE time

Max(a, b) == IF a >= b THEN a ELSE b
Min(a, b) == IF a <= b THEN a ELSE b

\* the button is disabled when currentScene === 0
handlePrevScene ==
    /\ currentScene # 0
    /\ LET newScene == Max(0, currentScene - 1)
       IN  /\ Publish(<<newScene>>)
           /\ currentTime' = SceneStartOr(script, newScene, currentTime)
    /\ isPlaying' = isPlaying /\ isDragging' = isDragging
    /\ RunPlaybackEffect
    /\ tlOp' = "handlePrevScene"
    /\ tlDelta' = 0
    /\ UNCHANGED notTimeline
    /\ UNCHANGED <<script, totalDuration>>

\* the button is disabled when currentScene === script.scenes.length - 1
handleNextScene ==
    /\ currentScene # Len(script) - 1
    /\ LET newScene == Min(Len(script) - 1, currentScene + 1)
       IN  /\ Publish(<<newScene>>)
           /\ currentTime' = SceneStartOr(script, newScene, currentTime)
    /\ isPlaying' = isPlaying /\ isDragging' = isDragging
    /\ RunPlaybackEffect
    /\ tlOp' = "handleNextScene"
    /\ tlDelta' = 0
    /\ UNCHANGED notTimeline
    /\ UNCHANGED <<script, totalDuration>>

handleJumpToStart ==
    /\ currentTime' = 0
    /\ Publish(<<0>>)
    /\ isPlaying' = isPlaying /\ isDragging' = isDragging
    /\ RunPlaybackEffect
    /\ tlOp' = "handleJumpToStart"
    /\ tlDelta' = 0
    /\ UNCHANGED notTimeline
    /\ UNCHANGED <<script, totalDuration>>

handleJumpToEnd ==
    /\ currentTime' = totalDuration
    /\ Publish(<<Len(script) - 1>>)
    /\ isPlaying' = isPlaying /\ isDragging' = isDragging
    /\ RunPlaybackEffect
    /\ tlOp' = "handleJumpToEnd"
    /\ tlDelta' = 0
    /\ UNCHANGED notTimeline
    /\ UNCHANGED <<script, totalDuration>>

\* click on an entry of the scene list (or of the scene menu)
sceneListClick(index) ==
    /\ index \in 0..(Len(script) - 1)
    /\ Publish(<<index>>)
    /\ currentTime' = startTime(script, index)
    /\ isPlaying' = isPlaying /\ isDragging' = isDragging
    /\ RunPlaybackEffect
    /\ tlOp' = "sceneListClick"
    /\ tlDelta' = 0
    /\ UNCHANGED notTimeline
    /\ UNCHANGED <<script, totalDuration>>

TimelineInit ==
    /\ script \in Scripts
    /\ isPlaying = FALSE
    /\ currentTime = 0
    /\ totalDuration = Total(script)
    /\ isDragging = FALSE
    /\ currentScene = 0
    /\ rafRef = FALSE
    /\ lastTickRef = FALSE
    /\ tlOp = "mount"
    /\ tlCalls = <<>>
    /\ tlDelta = 0

TimelineNext ==
    \/ \E delta \in 0..MaxDelta : tick(delta)
    \/ handlePlayPause
    \/ handleSliderBeforeChange
    \/ \E value \in 0..totalDuration : handleSliderChange(value)
    \/ handleSliderAfterChange
    \/ handlePrevScene
    \/ handleNextScene
    \/ handleJumpToStart
    \/ handleJumpToEnd
    \/ \E index \in 0..(Len(script) - 1) : sceneListClick(index)

\* the clock before any script is handed to it
TimelineIdle ==
    /\ script = <<>>
    /\ isPlaying = FALSE
    /\ currentTime = 0
    /\ totalDuration = 0
    /\ isDragging = FALSE
    /\ currentScene = 0
    /\ rafRef = FALSE
    /\ lastTickRef = FALSE
    /\ tlOp = "mount"
    /\ tlCalls = <<>>
    /\ tlDelta = 0

(***************************************************************************)
(* The renderer: a job is created "processing" and ends "completed" or     *)
(* "failed".                                                               *)
(***************************************************************************)
JobIds == 1..MaxJobs
Terminal == {"completed", "failed"}

\* the id the renderer gives to the next job
NextJobId == CHOOSE j \in JobIds : srvStatus[j] = "absent" /\ \A k \in 1..(j - 1) : srvStatus[k] # "absent"

RendererFinishes(j, outcome) ==
    /\ srvStatus[j] = "processing"
    /\ outcome \in Terminal
    /\ srvStatus' = [srvStatus EXCEPT ![j] = outcome]

(***************************************************************************)
(* VideoPreview: submit and the 2 s status poller.                         *)
(***************************************************************************)
\* a status check is "pending" until the renderer answers it; the answer
\* then travels back and is handled when it arrives
Answers == {"pending", "processing", "completed", "failed"}
CheckKinds == JobIds \X Answers

RECURSIVE SumOver(_, _)
SumOver(f, S) ==
    IF S = {} THEN 0
    ELSE LET x == CHOOSE y \in S : TRUE IN f[x] + SumOver(f, S \ {x})

InFlight(checks) == SumOver(checks, CheckKinds)

AddCheck(checks, j, a) == [checks EXCEPT ![<<j, a>>] = @ + 1]
RemoveCheck(checks, j, a) == [checks EXCEPT ![<<j, a>>] = @ - 1]

NoResp == [id |-> 0, status |-> "null"]

\* the polling effect on [videoId, videoStatus]: an interval exists exactly
\* when videoId is set and videoStatus is neither 'completed' nor 'failed'
vpIntervalActive(videoId, videoStatus) ==
    videoId # 0 /\ videoStatus # "completed" /\ videoStatus # "failed"

\* handleCreateVideo up to the await of api.post('/video/create')
handleCreateVideo ==
    /\ vpCreates + Cardinality({j \in JobIds : srvStatus[j] # "absent"}) < MaxJobs
    /\ vpLoading' = TRUE
    /\ vpProgress' = 10
    /\ vpCreates' = vpCreates + 1
    /\ vpResp' = NoResp
    /\ UNCHANGED <<vpVideoId, vpVideoStatus, vpChecks, vpNotified, srvStatus>>

\* the create button: rendered when !videoId, inert while loading={loading}
vpCreateClick ==
    /\ vpVideoId = 0
    /\ ~vpLoading
    /\ handleCreateVideo
    /\ vpOp' = "createClick"
    /\ UNCHANGED notPreview

\* the retry button of the failure alert: rendered when videoStatus === 'failed'
vpRetryClick ==
    /\ vpVideoStatus = "failed"
    /\ handleCreateVideo
    /\ vpOp' = "retryClick"
    /\ UNCHANGED notPreview

\* the create request succeeds: the renderer creates the job and
\* handleCreateVideo continues after the await
vpCreateResolved ==
    /\ vpCreates > 0
    /\ LET id == NextJobId
       IN  /\ srvStatus' = [srvStatus EXCEPT ![id] = "processing"]
           /\ vpVideoId' = id
    /\ vpVideoStatus' = "processing"
    /\ vpProgress' = 20
    /\ vpCreates' = vpCreates - 1
    /\ vpOp' = "createResolved"
    /\ UNCHANGED notPreview
    /\ vpResp' = NoResp
    /\ UNCHANGED <<vpLoading, vpChecks, vpNotified>>

\* the create request fails: the catch branch of handleCreateVideo
vpCreateRejected ==
    /\ vpCreates > 0
    /\ vpLoading' = FALSE
    /\ vpCreates' = vpCreates - 1
    /\ vpOp' = "createRejected"
    /\ UNCHANGED notPreview
    /\ vpResp' = NoResp
    /\ UNCHANGED <<vpVideoId, vpVideoStatus, vpProgress, vpChecks, vpNotified, srvStatus>>

\* the 2 s interval fires: checkVideoStatus issues api.get for the videoId
\* of the render that installed the interval
vpIntervalFires ==
    /\ vpIntervalActive(vpVideoId, vpVideoStatus)
    /\ InFlight(vpChecks) < MaxInFlight
    /\ vpChecks' = AddCheck(vpChecks, vpVideoId, "pending")
    /\ vpOp' = "intervalFires"
    /\ UNCHANGED notPreview
    /\ vpResp' = NoResp
    /\ UNCHANGED <<vpLoading, vpVideoId, vpVideoStatus, vpProgress, vpCreates,
                   vpNotified, srvStatus>>

\* the renderer answers a pending check with the job's status at that moment
vpRendererAnswers(j) ==
    /\ vpChecks[<<j, "pending">>] > 0
    /\ vpChecks' = AddCheck(RemoveCheck(vpChecks, j, "pending"), j, srvStatus[j])
    /\ vpOp' = "rendererAnswers"
    /\ UNCHANGED notPreview
    /\ vpResp' = NoResp
    /\ UNCHANGED <<vpLoading, vpVideoId, vpVideoStatus, vpProgress, vpCreates,
                   vpNotified, srvStatus>>

\* setProgress in checkVideoStatus
vpProgressAfter(prev, status) ==
    IF status = "completed" THEN 100
    ELSE IF status = "processing" THEN Min(prev + 10, 90)
    ELSE prev

\* the try branch of checkVideoStatus after the await: the response for the
\* check of job j arrives carrying status
vpStatusArrives(j, status) ==
    /\ status \in Answers \ {"pending"}
    /\ vpChecks[<<j, status>>] > 0
    /\ vpChecks' = RemoveCheck(vpChecks, j, status)
    /\ vpVideoStatus' = status
    /\ vpProgress' = vpProgressAfter(vpProgress, status)
    /\ vpNotified' = IF status = "completed"
                     THEN [vpNotified EXCEPT ![j] = Min(@ + 1, MaxNotify)]
                     ELSE vpNotified
    /\ vpOp' = "statusArrives"
    /\ UNCHANGED notPreview
    /\ vpResp' = [id |-> j, status |-> status]
    /\ UNCHANGED <<vpLoading, vpVideoId, vpCreates, srvStatus>>

\* the catch branch of checkVideoStatus: the check fails in transport
vpCheckFails(j) ==
    /\ vpChecks[<<j, "pending">>] > 0
    /\ vpChecks' = RemoveCheck(vpChecks, j, "pending")
    /\ vpOp' = "checkFails"
    /\ UNCHANGED notPreview
    /\ vpResp' = NoResp
    /\ UNCHANGED <<vpLoading, vpVideoId, vpVideoStatus, vpProgress, vpCreates,
                   vpNotified, srvStatus>>

\* VideoDownload's "make new video" button, rendered when 'completed'
onNewVideo ==
    /\ vpVideoStatus = "completed"
    /\ vpVideoId' = 0
    /\ vpVideoStatus' = "null"
    /\ vpProgress' = 0
    /\ vpOp' = "onNewVideo"
    /\ UNCHANGED notPreview
    /\ vpResp' = NoResp
    /\ UNCHANGED <<vpLoading, vpCreates, vpChecks, vpNotified, srvStatus>>

vpRendererFinishes(j, outcome) ==
    /\ RendererFinishes(j, outcome)
    /\ vpOp' = "rendererFinishes"
    /\ UNCHANGED notPreview
    /\ vpResp' = NoResp
    /\ UNCHANGED <<vpLoading, vpVideoId, vpVideoStatus, vpProgress, vpCreates,
                   vpChecks, vpNotified>>

\* VideoPreview before anything is submitted
PreviewIdle ==
    /\ vpLoading = FALSE
    /\ vpVideoId = 0
    /\ vpVideoStatus = "null"
    /\ vpProgress = 0
    /\ vpCreates = 0
    /\ vpChecks = [k \in CheckKinds |-> 0]
    /\ vpNotified = [j \in JobIds |-> 0]
    /\ vpOp = "mount"
    /\ vpResp = NoResp

PreviewInit ==
    /\ srvStatus = [j \in JobIds |-> "absent"]
    /\ PreviewIdle

PreviewNext ==
    \/ vpCreateClick
    \/ vpRetryClick
    \/ vpCreateResolved
    \/ vpCreateRejected
    \/ vpIntervalFires
    \/ \E j \in JobIds : vpRendererAnswers(j)
    \/ \E j \in JobIds, status \in Answers : vpStatusArrives(j, status)
    \/ \E j \in JobIds : vpCheckFails(j)
    \/ onNewVideo
    \/ \E j \in JobIds, outcome \in Terminal : vpRendererFinishes(j, outcome)

(***************************************************************************)
(* VideoExport: the 3 s status poller of the export page.                  *)
(***************************************************************************)
\* the videoId prop: the job the export page is opened for
exVideoId == 1

\* the polling handle: pollingIntervalRef.current, the timers that exist,
\* and the isPolling flag
\* startPolling without the early return on pollingIntervalRef.current
startPollingNoGuard(p) ==
    [ref |-> TRUE, timers |-> p.timers + 1, isPolling |-> TRUE]

startPolling(p) ==
    IF p.ref THEN p
    ELSE [ref |-> TRUE, timers |-> p.timers + 1, isPolling |-> TRUE]

stopPolling(p) ==
    IF p.ref THEN [ref |-> FALSE, timers |-> p.timers - 1, isPolling |-> FALSE]
    ELSE p

\* the polling effect on [videoId, videoInfo, ...], re-run when videoInfo is
\* replaced: the cleanup of the previous run, then the body
exPollingEffect(p, status) ==
    LET cleaned == stopPolling(p)
        needPolling == status = "null" \/ status # "completed"
    IN  IF needPolling THEN startPolling(cleaned) ELSE stopPolling(cleaned)

exPolling == [ref |-> exIntervalRef, timers |-> exTimers, isPolling |-> exIsPolling]

exSetPolling(p) ==
    /\ exIntervalRef' = p.ref
    /\ exTimers' = p.timers
    /\ exIsPolling' = p.isPolling

\* the 3 s interval fires: fetchVideoInfo issues api.get for videoId
exIntervalFires ==
    /\ exTimers > 0
    /\ InFlight(exChecks) < MaxInFlight
    /\ exChecks' = AddCheck(exChecks, exVideoId, "pending")
    /\ exOp' = "intervalFires"
    /\ UNCHANGED notExport
    /\ exResp' = NoResp
    /\ UNCHANGED <<exVideoInfo, exIsPolling, exShowFailureModal, exHasAnnounced,
                   exIntervalRef, exTimers, exHeads, exAnnounced, exStopped, srvStatus>>

exRendererAnswers(j) ==
    /\ exChecks[<<j, "pending">>] > 0
    /\ exChecks' = AddCheck(RemoveCheck(exChecks, j, "pending"), j, srvStatus[j])
    /\ exOp' = "rendererAnswers"
    /\ UNCHANGED notExport
    /\ exResp' = NoResp
    /\ UNCHANGED <<exVideoInfo, exIsPolling, exShowFailureModal, exHasAnnounced,
                   exIntervalRef, exTimers, exHeads, exAnnounced, exStopped, srvStatus>>

\* the try branch of fetchVideoInfo after the await of the status request,
\* up to the await of api.head, and the re-render that follows
exStatusArrives(j, status, hasPreviewUrl) ==
    /\ status \in Answers \ {"pending"}
    /\ exChecks[<<j, status>>] > 0
    /\ exChecks' = RemoveCheck(exChecks, j, status)
    /\ exVideoInfo' = status
    /\ LET announce == status = "completed" /\ ~exHasAnnounced
           p == IF announce THEN stopPolling(exPolling) ELSE exPolling
       IN  /\ exHasAnnounced' = (exHasAnnounced \/ announce)
           /\ exAnnounced' = IF announce THEN Min(exAnnounced + 1, MaxNotify)
                             ELSE exAnnounced
           /\ exSetPolling(exPollingEffect(p, status))
    /\ (status = "completed" /\ hasPreviewUrl) => exHeads < MaxInFlight
    /\ exHeads' = IF status = "completed" /\ hasPreviewUrl
                  THEN exHeads + 1 ELSE exHeads
    /\ exStopped' = (exStopped \/ status \in Terminal)
    /\ exOp' = "statusArrives"
    /\ UNCHANGED notExport
    /\ exResp' = [id |-> j, status |-> status]
    /\ UNCHANGED <<exShowFailureModal, srvStatus>>

\* the outer catch of fetchVideoInfo: the status request fails
exCheckFails(j) ==
    /\ exChecks[<<j, "pending">>] > 0
    /\ exChecks' = RemoveCheck(exChecks, j, "pending")
    /\ exShowFailureModal' = TRUE
    /\ exOp' = "checkFails"
    /\ UNCHANGED notExport
    /\ exResp' = NoResp
    /\ UNCHANGED <<exVideoInfo, exIsPolling, exHasAnnounced, exIntervalRef,
                   exTimers, exHeads, exAnnounced, exStopped, srvStatus>>

\* api.head(preview_url) resolves, or fails into the inner catch
exHeadSettles(ok) ==
    /\ exHeads > 0
    /\ exHeads' = exHeads - 1
    /\ exShowFailureModal' = IF ok THEN exShowFailureModal ELSE TRUE
    /\ exOp' = "headSettles"
    /\ UNCHANGED notExport
    /\ exResp' = NoResp
    /\ UNCHANGED <<exVideoInfo, exIsPolling, exHasAnnounced, exIntervalRef,
                   exTimers, exChecks, exAnnounced, exStopped, srvStatus>>

\* the retry buttons of the failure modal
handleRetry ==
    /\ exShowFailureModal
    /\ InFlight(exChecks) < MaxInFlight
    /\ exShowFailureModal' = FALSE
    /\ exChecks' = AddCheck(exChecks, exVideoId, "pending")
    /\ exSetPolling(startPolling(exPolling))
    /\ exStopped' = FALSE
    /\ exOp' = "handleRetry"
    /\ UNCHANGED notExport
    /\ exResp' = NoResp
    /\ UNCHANGED <<exVideoInfo, exHasAnnounced, exHeads, exAnnounced, srvStatus>>

\* onCancel, the close button and handleSendToEmail
exCloseModal ==
    /\ exShowFailureModal
    /\ exShowFailureModal' = FALSE
    /\ exOp' = "closeModal"
    /\ UNCHANGED notExport
    /\ exResp' = NoResp
    /\ UNCHANGED <<exVideoInfo, exIsPolling, exHasAnnounced, exIntervalRef,
                   exTimers, exChecks, exHeads, exAnnounced, exStopped, srvStatus>>

exRendererFinishes(j, outcome) ==
    /\ RendererFinishes(j, outcome)
    /\ exOp' = "rendererFinishes"
    /\ UNCHANGED notExport
    /\ exResp' = NoResp
    /\ UNCHANGED <<exVideoInfo, exIsPolling, exShowFailureModal, exHasAnnounced,
                   exIntervalRef, exTimers, exChecks, exHeads, exAnnounced, exStopped>>

\* VideoExport before it is given a videoId
ExportIdle ==
    /\ exVideoInfo = "null"
    /\ exIsPolling = FALSE
    /\ exShowFailureModal = FALSE
    /\ exHasAnnounced = FALSE
    /\ exIntervalRef = FALSE
    /\ exTimers = 0
    /\ exChecks = [k \in CheckKinds |-> 0]
    /\ exHeads = 0
    /\ exAnnounced = 0
    /\ exStopped = FALSE
    /\ exOp = "idle"
    /\ exResp = NoResp

\* mounted with videoId: the first effect has called fetchVideoInfo and the
\* second has called startPolling
ExportInit ==
    /\ srvStatus = [j \in JobIds |-> IF j = exVideoId THEN "processing" ELSE "absent"]
    /\ exVideoInfo = "null"
    /\ exIsPolling = TRUE
    /\ exShowFailureModal = FALSE
    /\ exHasAnnounced = FALSE
    /\ exIntervalRef = TRUE
    /\ exTimers = 1
    /\ exChecks = [k \in CheckKinds |-> IF k = <<exVideoId, "pending">> THEN 1 ELSE 0]
    /\ exHeads = 0
    /\ exAnnounced = 0
    /\ exStopped = FALSE
    /\ exOp = "mount"
    /\ exResp = NoResp

ExportNext ==
    \/ exIntervalFires
    \/ \E j \in JobIds : exRendererAnswers(j)
    \/ \E j \in JobIds, status \in Answers, hasPreviewUrl \in BOOLEAN :
          exStatusArrives(j, status, hasPreviewUrl)
    \/ \E j \in JobIds : exCheckFails(j)
    \/ \E ok \in BOOLEAN : exHeadSettles(ok)
    \/ handleRetry
    \/ exCloseModal
    \/ \E j \in JobIds, outcome \in Terminal : exRendererFinishes(j, outcome)

(***************************************************************************)
(* The axios instance `api`: one request through the response interceptor  *)
(* with its retry policy.                                                  *)
(***************************************************************************)
maxRetries == 2

Methods == {"get", "head", "post"}

\* the errors a request can fail with: no response (network failure or
\* timeout), or a response with an error status
NoError == [response |-> FALSE, status |-> 0, message |-> "none"]
Errors ==
    {[response |-> FALSE, status |-> 0, message |-> m] :
        m \in {"Network Error", "timeout of 10000ms exceeded"}}
    \cup {[response |-> TRUE, status |-> st, message |-> "Request failed"] :
        st \in {400, 401, 403, 404, 500, 503}}

\* the policy without the test on the method
shouldRetryAnyMethod(method, error) ==
    LET isNetwork == ~error.response
        is5xx == error.response /\ error.status >= 500 /\ error.status < 600
    IN  isNetwork \/ is5xx

shouldRetry(method, error) ==
    LET isIdempotent == method = "get" \/ method = "head"
        isNetwork == ~error.response
        is5xx == error.response /\ error.status >= 500 /\ error.status < 600
    IN  isIdempotent /\ (isNetwork \/ is5xx)

RECURSIVE Pow2(_)
Pow2(n) == IF n <= 0 THEN 1 ELSE 2 * Pow2(n - 1)

\* the delay computed from the count before it is incremented
BackoffFromOldCount(retryCount) == 500 * Pow2(retryCount)

\* const backoff = 500 * Math.pow(2, config._retryCount - 1)
Backoff(retryCount) == 500 * Pow2(retryCount - 1)

\* the errorMessage chosen by the interceptor
ErrorMessage(error) ==
    IF error.response
    THEN CASE error.status = 400 -> "bad request"
           [] error.status = 401 -> "login expired"
           [] error.status = 403 -> "forbidden"
           [] error.status = 404 -> "not found"
           [] error.status = 500 -> "server error"
           [] OTHER -> "request failed with status"
    ELSE IF error.message = "timeout of 10000ms exceeded" THEN "timeout"
    ELSE IF error.message = "Network Error" THEN "network error"
    ELSE "request failed"

\* a caller issues a request: a fresh config, so _retryCount is unset
apiRequest(method) ==
    /\ apiPhase \in {"idle", "resolved", "rejected"}
    /\ apiPhase' = "sent"
    /\ apiMethod' = method
    /\ apiRetryCount' = 0
    /\ apiError' = NoError
    /\ apiSends' = 1
    /\ apiDelays' = <<>>
    /\ apiOp' = "request"
    /\ UNCHANGED notApi
    /\ UNCHANGED apiMessage

\* the success handler of the interceptor: the promise resolves with
\* response.data
apiSucceeds ==
    /\ apiPhase = "sent"
    /\ apiPhase' = "resolved"
    /\ apiOp' = "succeeds"
    /\ UNCHANGED notApi
    /\ UNCHANGED <<apiMethod, apiRetryCount, apiError, apiSends, apiDelays, apiMessage>>

\* the error handler of the interceptor: start a backoff before a retry, or
\* show the message and reject
apiFails(error) ==
    /\ apiPhase = "sent"
    /\ error \in Errors
    /\ apiError' = error
    /\ IF shouldRetry(apiMethod, error) /\ apiRetryCount < maxRetries
       THEN /\ apiRetryCount' = apiRetryCount + 1
            /\ apiDelays' = Append(apiDelays, Backoff(apiRetryCount + 1))
            /\ apiPhase' = "backoff"
            /\ UNCHANGED apiMessage
       ELSE /\ apiMessage' = ErrorMessage(error)
            /\ apiPhase' = "rejected"
            /\ UNCHANGED <<apiRetryCount, apiDelays>>
    /\ apiOp' = "fails"
    /\ UNCHANGED notApi
    /\ UNCHANGED <<apiMethod, apiSends>>

\* the backoff timer elapses: return api(config) sends the request again
apiBackoffElapses ==
    /\ apiPhase = "backoff"
    /\ apiPhase' = "sent"
    /\ apiSends' = apiSends + 1
    /\ apiOp' = "backoffElapses"
    /\ UNCHANGED notApi
    /\ UNCHANGED <<apiMethod, apiRetryCount, apiError, apiDelays, apiMessage>>

ApiIdle ==
    /\ apiPhase = "idle"
    /\ apiMethod = "get"
    /\ apiRetryCount = 0
    /\ apiError = NoError
    /\ apiSends = 0
    /\ apiDelays = <<>>
    /\ apiMessage = "none"
    /\ apiOp = "create"

ApiNext ==
    \/ \E method \in Methods : apiRequest(method)
    \/ apiSucceeds
    \/ \E error \in Errors : apiFails(error)
    \/ apiBackoffElapses

(***************************************************************************)
(* VideoDownload: the download panel, mounted by VideoPreview when its     *)
(* videoStatus is 'completed'.  A locator is "" when it is not set.        *)
(***************************************************************************)
\* the statuses a status response can carry.  VideoPreview mounts the panel
\* on its own videoStatus, which a late response of an earlier job can set
\* to 'completed' while the job of videoId is still processing or has failed
JobStatuses == {"processing", "completed", "failed"}

\* data.download_url and data.cloud_download_url of a completed job
LocalLocator == "x"
CloudLocators == {"", "c"}

\* const url = useCloud && cloudDownloadUrl ? cloudDownloadUrl : downloadUrl
DownloadLocator(useCloud, cloudDownloadUrl, downloadUrl) ==
    IF useCloud /\ cloudDownloadUrl # "" THEN cloudDownloadUrl ELSE downloadUrl

\* the try branch of checkVideoStatus: the response of the mount effect's
\* status request arrives
dlStatusArrives(status, cloud) ==
    /\ dlCheck = "pending"
    /\ status \in JobStatuses
    /\ cloud \in CloudLocators
    /\ dlCheck' = "none"
    /\ dlStatus' = status
    /\ IF status = "completed"
       THEN /\ dlDownloadUrl' = LocalLocator
            /\ dlCloudDownloadUrl' = cloud
       ELSE UNCHANGED <<dlDownloadUrl, dlCloudDownloadUrl>>
    /\ dlDid' = {}
    /\ dlOp' = "statusArrives"
    /\ UNCHANGED notDownload
    /\ UNCHANGED <<dlShareModalVisible, dlSaved>>

\* the catch branch of checkVideoStatus
dlCheckFails ==
    /\ dlCheck = "pending"
    /\ dlCheck' = "none"
    /\ dlDid' = {}
    /\ dlOp' = "checkFails"
    /\ UNCHANGED notDownload
    /\ UNCHANGED <<dlStatus, dlDownloadUrl, dlCloudDownloadUrl,
                   dlShareModalVisible, dlSaved>>

\* the download buttons: handleDownload(false), and handleDownload(true) of
\* the cloud button, which is rendered when cloudDownloadUrl is set
dlHandleDownload(useCloud) ==
    /\ useCloud => dlCloudDownloadUrl # ""
    /\ dlSaved' = DownloadLocator(useCloud, dlCloudDownloadUrl, dlDownloadUrl)
    /\ dlDid' = {"save", "success"}
    /\ dlOp' = "handleDownload"
    /\ UNCHANGED notDownload
    /\ UNCHANGED <<dlCheck, dlStatus, dlDownloadUrl, dlCloudDownloadUrl,
                   dlShareModalVisible>>

\* the copy buttons: navigator.clipboard.writeText(shareUrl) resolves or
\* rejects
dlHandleCopyLink(ok) ==
    /\ dlDid' = IF ok THEN {"copy", "success"} ELSE {"error"}
    /\ dlOp' = "handleCopyLink"
    /\ UNCHANGED notDownload
    /\ UNCHANGED <<dlCheck, dlStatus, dlDownloadUrl, dlCloudDownloadUrl,
                   dlShareModalVisible, dlSaved>>

\* the share button: navigator.share when the browser has it, else the
\* share modal; the modal also when navigator.share rejects
dlHandleShare(hasShare, ok) ==
    /\ IF hasShare /\ ok
       THEN /\ dlDid' = {"share"}
            /\ UNCHANGED dlShareModalVisible
       ELSE /\ dlDid' = {}
            /\ dlShareModalVisible' = TRUE
    /\ dlOp' = "handleShare"
    /\ UNCHANGED notDownload
    /\ UNCHANGED <<dlCheck, dlStatus, dlDownloadUrl, dlCloudDownloadUrl, dlSaved>>

\* onCancel of the share modal
dlCloseShareModal ==
    /\ dlShareModalVisible
    /\ dlShareModalVisible' = FALSE
    /\ dlDid' = {}
    /\ dlOp' = "closeShareModal"
    /\ UNCHANGED notDownload
    /\ UNCHANGED <<dlCheck, dlStatus, dlDownloadUrl, dlCloudDownloadUrl, dlSaved>>

\* VideoDownload not mounted
DownloadIdle ==
    /\ dlCheck = "none"
    /\ dlStatus = "null"
    /\ dlDownloadUrl = ""
    /\ dlCloudDownloadUrl = ""
    /\ dlShareModalVisible = FALSE
    /\ dlSaved = "none"
    /\ dlDid = {}
    /\ dlOp = "idle"

\* mounted with videoId: the effect has called checkVideoStatus
DownloadInit ==
    /\ dlCheck = "pending"
    /\ dlStatus = "null"
    /\ dlDownloadUrl = ""
    /\ dlCloudDownloadUrl = ""
    /\ dlShareModalVisible = FALSE
    /\ dlSaved = "none"
    /\ dlDid = {}
    /\ dlOp = "mount"

DownloadNext ==
    \/ \E status \in JobStatuses, cloud \in CloudLocators : dlStatusArrives(status, cloud)
    \/ dlCheckFails
    \/ \E useCloud \in BOOLEAN : dlHandleDownload(useCloud)
    \/ \E ok \in BOOLEAN : dlHandleCopyLink(ok)
    \/ \E hasShare \in BOOLEAN, ok \in BOOLEAN : dlHandleShare(hasShare, ok)
    \/ dlCloseShareModal

(***************************************************************************)
(* AppContext: appReducer over the state object of useReducer.             *)
(***************************************************************************)
Slices == {"user", "app", "project", "editor", "preview"}

initialState ==
    [user |-> [name |-> "user", avatar |-> "null",
               preferences |-> [theme |-> "light", language |-> "zh-CN",
                                autoSave |-> TRUE]],
     app |-> [currentStep |-> 0, loading |-> FALSE, error |-> "null",
              notifications |-> <<>>],
     project |-> [id |-> "null", name |-> "", script |-> "null",
                  videoConfig |-> [template |-> "modern", format |-> "mp4"],
                  videoId |-> "null", lastSaved |-> "null", isDirty |-> FALSE],
     editor |-> [activeTab |-> "preview",
                 timeline |-> [currentTime |-> 0, playing |-> FALSE],
                 textStyle |-> [color |-> "#ffffff", position |-> "center"],
                 assets |-> <<>>, selectedAssets |-> <<>>],
     preview |-> [url |-> "null", status |-> "idle", progress |-> 0]]

ActionTypes ==
    {"SET_LOADING", "SET_ERROR", "CLEAR_ERROR", "SET_CURRENT_STEP",
     "ADD_NOTIFICATION", "REMOVE_NOTIFICATION",
     "SET_PROJECT", "UPDATE_PROJECT", "SET_SCRIPT", "SET_VIDEO_CONFIG",
     "SET_VIDEO_ID", "MARK_PROJECT_DIRTY", "MARK_PROJECT_CLEAN",
     "SET_ACTIVE_TAB", "UPDATE_TIMELINE", "UPDATE_TEXT_STYLE", "SET_ASSETS",
     "ADD_ASSET", "REMOVE_ASSET", "SELECT_ASSETS",
     "UPDATE_PREVIEW", "SET_PREVIEW_STATUS", "SET_PREVIEW_PROGRESS",
     "UPDATE_USER_PREFERENCES"}

\* { ...a, ...b } for an object b whose keys are keys of a
RECURSIVE MergeKeys(_, _, _)
MergeKeys(a, b, keys) ==
    IF keys = {} THEN a
    ELSE LET k == CHOOSE x \in keys : TRUE
         IN  MergeKeys([a EXCEPT ![k] = b[k]], b, keys \ {k})

Merge(a, b) == MergeKeys(a, b, DOMAIN b)

\* a reducer case that starts from initialState in place of ...state
SpreadFromInitial(state, slice, value) == [initialState EXCEPT ![slice] = value]

\* { ...state, [slice]: value }
Spread(state, slice, value) == [state EXCEPT ![slice] = value]

\* array.filter(x => x.id !== id)
WithoutId(items, id) == SelectSeq(items, LAMBDA x : x.id # id)

\* array.filter(x => x !== id)
Without(ids, id) == SelectSeq(ids, LAMBDA x : x # id)

\* new Date().toISOString() is the `now` carried by the model's action
appReducer(state, action) ==
    LET t == action.type
        payload == action.payload
        app == state.app
        project == state.project
        editor == state.editor
        preview == state.preview
        user == state.user
    IN  CASE t = "SET_LOADING" ->
               Spread(state, "app", [app EXCEPT !.loading = payload])
          [] t = "SET_ERROR" ->
               Spread(state, "app", [app EXCEPT !.error = payload])
          [] t = "CLEAR_ERROR" ->
               Spread(state, "app", [app EXCEPT !.error = "null"])
          [] t = "SET_CURRENT_STEP" ->
               Spread(state, "app", [app EXCEPT !.currentStep = payload])
          [] t = "ADD_NOTIFICATION" ->
               Spread(state, "app",
                      [app EXCEPT !.notifications = Append(@, payload)])
          [] t = "REMOVE_NOTIFICATION" ->
               Spread(state, "app",
                      [app EXCEPT !.notifications = WithoutId(@, payload)])
          [] t = "SET_PROJECT" ->
               Spread(state, "project", [payload EXCEPT !.isDirty = FALSE])
          [] t = "UPDATE_PROJECT" ->
               Spread(state, "project",
                      [Merge(project, payload) EXCEPT !.isDirty = TRUE])
          [] t = "SET_SCRIPT" ->
               Spread(state, "project",
                      [project EXCEPT !.script = payload, !.isDirty = TRUE])
          [] t = "SET_VIDEO_CONFIG" ->
               Spread(state, "project",
                      [project EXCEPT !.videoConfig = Merge(@, payload),
                                      !.isDirty = TRUE])
          [] t = "SET_VIDEO_ID" ->
               Spread(state, "project", [project EXCEPT !.videoId = payload])
          [] t = "MARK_PROJECT_DIRTY" ->
               Spread(state, "project", [project EXCEPT !.isDirty = TRUE])
          [] t = "MARK_PROJECT_CLEAN" ->
               Spread(state, "project",
                      [project EXCEPT !.isDirty = FALSE, !.lastSaved = action.now])
          [] t = "SET_ACTIVE_TAB" ->
               Spread(state, "editor", [editor EXCEPT !.activeTab = payload])
          [] t = "UPDATE_TIMELINE" ->
               Spread(state, "editor",
                      [editor EXCEPT !.timeline = Merge(@, payload)])
          [] t = "UPDATE_TEXT_STYLE" ->
               Spread(state, "editor",
                      [editor EXCEPT !.textStyle = Merge(@, payload)])
          [] t = "SET_ASSETS" ->
               Spread(state, "editor", [editor EXCEPT !.assets = payload])
          [] t = "ADD_ASSET" ->
               Spread(state, "editor",
                      [editor EXCEPT !.assets = Append(@, payload)])
          [] t = "REMOVE_ASSET" ->
               Spread(state, "editor",
                      [editor EXCEPT !.assets = WithoutId(@, payload),
                                     !.selectedAssets = Without(@, payload)])
          [] t = "SELECT_ASSETS" ->
               Spread(state, "editor",
                      [editor EXCEPT !.selectedAssets = payload])
          [] t = "UPDATE_PREVIEW" ->
               Spread(state, "preview", Merge(preview, payload))
          [] t = "SET_PREVIEW_STATUS" ->
               Spread(state, "preview", [preview EXCEPT !.status = payload])
          [] t = "SET_PREVIEW_PROGRESS" ->
               Spread(state, "preview", [preview EXCEPT !.progress = payload])
          [] t = "UPDATE_USER_PREFERENCES" ->
               Spread(state, "user",
                      [user EXCEPT !.preferences = Merge(@, payload)])
          [] OTHER -> state

\* ids of notifications and assets, and the steps of the wizard
ItemIds == 1..MaxItems

\* a project as loaded from the project list
loadedProject ==
    [id |-> "p", name |-> "n", script |-> "s",
     videoConfig |-> [template |-> "classic", format |-> "mp4"],
     videoId |-> "null", lastSaved |-> "t0", isDirty |-> TRUE]

\* a type that is not in ActionTypes
OtherTypes == {"RESET"}

\* the payloads dispatched with each action type
Payloads(t) ==
    CASE t = "SET_LOADING" -> BOOLEAN
      [] t = "SET_ERROR" -> {"e"}
      [] t = "SET_CURRENT_STEP" -> 0..MaxItems
      [] t = "ADD_NOTIFICATION" -> {[id |-> i] : i \in ItemIds}
      [] t = "REMOVE_NOTIFICATION" -> ItemIds
      [] t = "SET_PROJECT" -> {loadedProject}
      [] t = "UPDATE_PROJECT" -> {[name |-> "n"]}
      [] t = "SET_SCRIPT" -> {"s"}
      [] t = "SET_VIDEO_CONFIG" -> {[template |-> "classic"]}
      [] t = "SET_VIDEO_ID" -> {"v"}
      [] t = "SET_ACTIVE_TAB" -> {"assets"}
      [] t = "UPDATE_TIMELINE" -> {[playing |-> TRUE]}
      [] t = "UPDATE_TEXT_STYLE" -> {[color |-> "#ff0000"]}
      [] t = "SET_ASSETS" -> {<<>>} \cup {<<[id |-> i]>> : i \in ItemIds}
      [] t = "ADD_ASSET" -> {[id |-> i] : i \in ItemIds}
      [] t = "REMOVE_ASSET" -> ItemIds
      [] t = "SELECT_ASSETS" -> {<<>>} \cup {<<i>> : i \in ItemIds}
      [] t = "UPDATE_PREVIEW" -> {[url |-> "u"]}
      [] t = "SET_PREVIEW_STATUS" -> {"generating", "ready", "error"}
      [] t = "SET_PREVIEW_PROGRESS" -> {0, 50, 100}
      [] t = "UPDATE_USER_PREFERENCES" -> {[theme |-> "dark"]}
      [] OTHER -> {"none"}

\* dispatch(action): useReducer replaces the state by appReducer(state, action)
dispatch(action) ==
    /\ stCount < MaxDispatch
    /\ stState' = appReducer(stState, action)
    /\ stOp' = action.type
    /\ stCount' = stCount + 1
    /\ UNCHANGED notStore

\* AppProvider as mounted: useReducer(appReducer, initialState)
StoreIdle ==
    /\ stState = initialState
    /\ stOp = "init"
    /\ stCount = 0

StoreInit == StoreIdle

StoreNext ==
    \E t \in ActionTypes \cup OtherTypes : \E p \in Payloads(t) :
        dispatch([type |-> t, payload |-> p, now |-> "t1"])

(***************************************************************************)
(* Specifications: one per component, the other components at rest.        *)
(***************************************************************************)
InitTimeline == TimelineInit /\ PreviewInit /\ ExportIdle /\ ApiIdle /\ DownloadIdle /\ StoreIdle
SpecTimeline == InitTimeline /\ [][TimelineNext]_vars

InitPreview == PreviewInit /\ TimelineIdle /\ ExportIdle /\ ApiIdle /\ DownloadIdle /\ StoreIdle
SpecPreview == InitPreview /\ [][PreviewNext]_vars

InitExport == ExportInit /\ TimelineIdle /\ PreviewIdle /\ ApiIdle /\ DownloadIdle /\ StoreIdle
SpecExport == InitExport /\ [][ExportNext]_vars

InitApi == ApiIdle /\ TimelineIdle /\ PreviewInit /\ ExportIdle /\ DownloadIdle /\ StoreIdle
SpecApi == InitApi /\ [][ApiNext]_vars

InitDownload == DownloadInit /\ TimelineIdle /\ PreviewInit /\ ExportIdle /\ ApiIdle /\ StoreIdle
SpecDownload == InitDownload /\ [][DownloadNext]_vars

InitStore == StoreInit /\ TimelineIdle /\ PreviewInit /\ ExportIdle /\ ApiIdle /\ DownloadIdle
SpecStore == InitStore /\ [][StoreNext]_vars

(***************************************************************************)
(* Properties of the job pollers.                                          *)
(***************************************************************************)
\* the status checks of job j that are in flight
ChecksFor(checks, j) == SumOver(checks, {j} \X Answers)

\* C1: for one job at most one status check is in flight at any time; a
\* timer firing while the previous check is unresolved issues no request.
C1_OneCheckInFlight == \A j \in JobIds : ChecksFor(vpChecks, j) <= 1

\* polling for job j is stopped: j is not the job the interval polls
vpPollingStopped(j) == ~(vpVideoId = j /\ vpIntervalActive(vpVideoId, vpVideoStatus))

\* C2: a status response that arrives after polling for its job has been
\* stopped changes neither videoStatus nor progress and does not invoke
\* onVideoCreated.
C2_StaleResponseDiscarded ==
    [][(vpOp' = "statusArrives" /\ vpPollingStopped(vpResp'.id)) =>
          /\ vpVideoStatus' = vpVideoStatus
          /\ vpProgress' = vpProgress
          /\ vpNotified' = vpNotified]_vars

\* C3: while a submission is pending or its job is processing, a further
\* handleCreateVideo sends no create request.
C3_SecondSubmitRejected ==
    [][(vpCreates > 0 \/ (vpVideoId # 0 /\ vpVideoStatus = "processing")) =>
          vpCreates' <= vpCreates]_vars

\* C4: once videoStatus is 'completed' or 'failed' for a job, no later poll
\* response for that job changes it.
C4_StatusOnlyAdvances ==
    [][(vpVideoStatus \in Terminal /\ vpOp' = "statusArrives" /\ vpResp'.id = vpVideoId) =>
          vpVideoStatus' = vpVideoStatus]_vars

\* C5: after a terminal status response has been applied, the poller issues
\* no further status check for the job until retry is invoked.
C5_StopsOnTerminal == [][exStopped => exOp' # "intervalFires"]_vars

\* C6: the completion notification onVideoCreated fires at most once per job.
C6_NotifiedOnce == \A j \in JobIds : vpNotified[j] <= 1

\* C7: after a job has failed, retry creates a job with a different id, and a
\* response for the failed job that arrives afterwards alters neither the
\* status nor the progress of the new job.
C7_RetryDiscardsOldJob ==
    [][/\ (vpOp' = "createResolved" /\ vpVideoStatus = "failed") => vpVideoId' # vpVideoId
       /\ (/\ vpOp' = "statusArrives"
           /\ vpVideoId # 0
           /\ vpResp'.id # vpVideoId
           /\ srvStatus[vpResp'.id] = "failed") =>
             /\ vpVideoStatus' = vpVideoStatus
             /\ vpProgress' = vpProgress]_vars

(***************************************************************************)
(* Properties of the timeline clock.                                       *)
(***************************************************************************)
\* C8: currentTime stays within [0, total] in every reachable state of the
\* clock, whatever the deltas of the ticks, the seeks and the navigation.
C8_TimeInRange == currentTime >= 0 /\ currentTime <= totalDuration

\* a tick has reached the end of a non-empty timeline and rewound the clock
C8_Witness ==
    /\ tlOp = "tick"
    /\ totalDuration > 0
    /\ totalDuration < MaxDelta
    /\ ~isPlaying
    /\ currentTime = 0

IsSceneAt(s, t, i) ==
    /\ i \in 0..(Len(s) - 1)
    /\ startTime(s, i) <= t /\ t < endTime(s, i)
    /\ \A j \in 0..(Len(s) - 1) :
          (startTime(s, j) <= t /\ t < endTime(s, j)) => j = i

\* getCurrentSceneIndex(t) is the unique i with offsets[i] <= t < offsets[i+1]
\* for every time of the script in use, and the drag-end handler publishes it
ResolvesEveryTime ==
    /\ Len(script) > 0 =>
          \A t \in 0..(totalDuration - 1) :
              IsSceneAt(script, t, getCurrentSceneIndex(script, t))
    /\ (tlOp = "handleSliderAfterChange" /\ currentTime < totalDuration) =>
          IsSceneAt(script, currentTime, currentScene)

\* C10 as claimed: the rule above, with the examples 0 -> 0, 5 s -> 1 and
\* 7.5 s -> 2 for the durations 5, 3, 2 s (10, 6, 4 units; 7.5 s is 15 units).
C10_AsClaimed ==
    /\ ResolvesEveryTime
    /\ script = <<10, 6, 4>> =>
          /\ getCurrentSceneIndex(script, 0) = 0
          /\ getCurrentSceneIndex(script, 10) = 1
          /\ getCurrentSceneIndex(script, 15) = 2

\* C10 (amended): for a non-empty scene list and 0 <= t < total,
\* getCurrentSceneIndex(t) is the unique i with offsets[i] <= t < offsets[i+1];
\* an internal boundary belongs to the scene that starts there.  For the
\* durations 5, 3, 2 s: 0 -> 0, 5 s -> 1, 7.5 s -> 1 (the second scene spans
\* [5 s, 8 s)), 8 s -> 2.
C10_ResolveInRange ==
    /\ ResolvesEveryTime
    /\ script = <<10, 6, 4>> =>
          /\ getCurrentSceneIndex(script, 0) = 0
          /\ getCurrentSceneIndex(script, 10) = 1
          /\ getCurrentSceneIndex(script, 15) = 1
          /\ getCurrentSceneIndex(script, 16) = 2

\* a drag has ended exactly on the boundary between the first two scenes
C10_Witness ==
    /\ tlOp = "handleSliderAfterChange"
    /\ script = <<10, 6, 4>>
    /\ currentTime = 10
    /\ currentScene = 1

\* C11: for a non-empty scene list the time equal to total resolves to the
\* last index, n - 1; stated of the drag-end handler called with the slider
\* at its maximum, which publishes getCurrentSceneIndex(total).
C11_TotalResolvesLast ==
    (tlOp = "handleSliderAfterChange" /\ Len(script) > 0 /\ currentTime = totalDuration) =>
        /\ getCurrentSceneIndex(script, totalDuration) = Len(script) - 1
        /\ tlCalls = <<Len(script) - 1>>

\* C12: for a non-empty scene list getCurrentSceneIndex is monotonic
\* non-decreasing over the closed range [0, total].
C12_ResolveMonotonic ==
    Len(script) > 0 =>
        \A t1, t2 \in 0..totalDuration :
            t1 <= t2 => getCurrentSceneIndex(script, t1) <= getCurrentSceneIndex(script, t2)

\* C13: during playback the scene-change callback is edge-triggered: a tick
\* invokes onSceneChange at most once, exactly when the index resolved from
\* the new time differs from the published index, and never with the index
\* that is already published.
C13_EdgeTriggered ==
    [][tlOp' = "tick" =>
          LET resolved == getCurrentSceneIndex(script, currentTime')
          IN  /\ Len(tlCalls') <= 1
              /\ tlCalls' # <<>> => (tlCalls'[1] # currentScene /\ tlCalls'[1] = resolved)
              /\ (isPlaying' /\ resolved # currentScene) => tlCalls' = <<resolved>>]_vars

\* a tick has just crossed from the first scene into the second
C13_Witness ==
    /\ tlOp = "tick"
    /\ isPlaying
    /\ script = <<10, 6, 4>>
    /\ tlCalls = <<1>>
    /\ currentScene = 1

\* C14: when a drag ends the index is resolved once from the final slider
\* value and onSceneChange is invoked only if it differs from the published
\* index; ending the drag inside the published scene invokes no callback.
C14_DragEndEdgeTriggered ==
    [][tlOp' = "handleSliderAfterChange" =>
          LET resolved == getCurrentSceneIndex(script, currentTime)
          IN  tlCalls' = IF resolved # currentScene THEN <<resolved>> ELSE <<>>]_vars

\* C15: between drag start and drag end no scene index is published: slider
\* change events (and animation frames) during the drag never invoke
\* onSceneChange, whatever boundaries the pointer crosses.
C15_NoPublishWhileDragging ==
    [][(isDragging /\ tlOp' \in {"handleSliderChange", "tick"}) =>
          (tlCalls' = <<>> /\ currentScene' = currentScene)]_vars

\* the pointer has crossed two scene boundaries and scene 0 is still published
C15_Witness ==
    /\ isDragging
    /\ tlOp = "handleSliderChange"
    /\ script = <<10, 6, 4>>
    /\ currentTime = 17
    /\ currentScene = 0

\* C16: beginning a scrub pauses the clock: after onBeforeChange isPlaying is
\* false, and after the drag ends no animation frame is requested until play
\* is pressed again.
C16_ScrubPauses ==
    [][/\ tlOp' = "handleSliderBeforeChange" => ~isPlaying'
       /\ tlOp' = "handleSliderAfterChange" => ~rafRef']_vars

\* C17: a tick that would bring currentTime to or past total stops and
\* rewinds the clock (isPlaying false, currentTime 0, no frame requested),
\* and no tick runs while the clock is not playing.
C17_StopAndRewind ==
    [][/\ (tlOp' = "tick" /\ currentTime + tlDelta' >= totalDuration) =>
             (~isPlaying' /\ currentTime' = 0 /\ ~rafRef')
       /\ ~isPlaying => tlOp' # "tick"
       /\ ~isPlaying' => ~rafRef']_vars

\* a tick with a positive delta has run past the end of the 5, 3, 2 s timeline
C17_Witness ==
    /\ tlOp = "tick"
    /\ script = <<10, 6, 4>>
    /\ tlDelta > 0
    /\ ~isPlaying
    /\ currentTime = 0

\* the time a jump to scene index target lands on: the start offset of that
\* scene (the time is left alone when the list has no such scene)
TargetStart(target) ==
    IF target \in 0..(Len(script) - 1) THEN startTime(script, target) ELSE currentTime

\* C18: each navigation operation publishes its target index at once,
\* whatever index was published before, and moves currentTime to the start
\* offset of the target scene: nextScene targets min(n-1, current+1),
\* previousScene max(0, current-1), jumpToStart publishes 0 at time 0,
\* jumpToEnd publishes n-1 at time total.
C18_NavigationPublishes ==
    [][/\ tlOp' = "handleNextScene" =>
             LET target == Min(Len(script) - 1, currentScene + 1)
             IN  tlCalls' = <<target>> /\ currentTime' = TargetStart(target)
       /\ tlOp' = "handlePrevScene" =>
             LET target == Max(0, currentScene - 1)
             IN  tlCalls' = <<target>> /\ currentTime' = TargetStart(target)
       /\ tlOp' = "handleJumpToStart" => (tlCalls' = <<0>> /\ currentTime' = 0)
       /\ tlOp' = "handleJumpToEnd" =>
             (tlCalls' = <<Len(script) - 1>> /\ currentTime' = totalDuration)]_vars

\* nextScene has jumped from the second scene to the start of the third
C18_Witness ==
    /\ tlOp = "handleNextScene"
    /\ script = <<10, 6, 4>>
    /\ tlCalls = <<2>>
    /\ currentTime = 16

\* C19: with an empty scene list the clock is permanently paused at time 0:
\* in every reachable state isPlaying is false and currentTime is 0.
C19_EmptyStaysPaused == script = <<>> => (~isPlaying /\ currentTime = 0)

(***************************************************************************)
(* Properties of the request retry policy.                                 *)
(***************************************************************************)
\* C20: a status check that keeps failing with a transient transport error
\* is re-issued at most 2 times (3 attempts in total), the delay before
\* retry k is 500 * 2^(k-1) ms (500 then 1000), and after the cap the error
\* is rejected to the caller.
C20_CappedBackoff ==
    /\ apiRetryCount <= 2
    /\ apiSends <= 3
    /\ Len(apiDelays) = apiRetryCount
    /\ \A k \in 1..Len(apiDelays) : apiDelays[k] = 500 * Pow2(k - 1)
    /\ apiDelays \in {<<>>, <<500>>, <<500, 1000>>}
    /\ (apiPhase = "rejected" /\ apiMethod = "get" /\ shouldRetry(apiMethod, apiError)) =>
          (apiSends = 3 /\ apiDelays = <<500, 1000>>)

\* a GET has failed three times with a transient error and has been rejected
C20_Witness ==
    /\ apiPhase = "rejected"
    /\ apiMethod = "get"
    /\ ~apiError.response
    /\ apiSends = 3
    /\ apiDelays = <<500, 1000>>

\* C21: a failed request is retried only when its method is GET or HEAD and
\* the failure is a network error or a 5xx status; a 4xx response and any
\* failed POST are rejected at once, without a retry.
C21_RetryEligibility ==
    [][(apiPhase = "sent" /\ apiOp' = "fails") =>
          LET e == apiError'
              idempotent == apiMethod \in {"get", "head"}
              transient == ~e.response \/ (e.status >= 500 /\ e.status <= 599)
              is4xx == e.response /\ e.status >= 400 /\ e.status <= 499
          IN  /\ apiPhase' = "backoff" => (idempotent /\ transient)
              /\ (is4xx \/ apiMethod = "post") =>
                    /\ apiPhase' = "rejected"
                    /\ apiDelays' = apiDelays
                    /\ apiRetryCount' = apiRetryCount
                    /\ apiMessage' = ErrorMessage(e)]_vars

\* a POST has failed with a network error and was rejected on its first
\* attempt
C21_Witness ==
    /\ apiPhase = "rejected"
    /\ apiMethod = "post"
    /\ ~apiError.response
    /\ apiSends = 1
    /\ apiDelays = <<>>

(***************************************************************************)
(* Properties of VideoPreview, continued.                                  *)
(***************************************************************************)
\* C22: when a status check of the current job has failed for good (the
\* request was rejected after its retries), the poller stops: no interval
\* exists for that job after the failure is handled.
C22_StopsAfterFailedCheck ==
    [][(/\ vpOp' = "checkFails"
        /\ vpVideoId # 0
        /\ vpChecks'[<<vpVideoId, "pending">>] < vpChecks[<<vpVideoId, "pending">>])
          => ~vpIntervalActive(vpVideoId', vpVideoStatus')]_vars

\* C23: within one job the progress value is an integer in [0,100] and a
\* status response for the job never decreases it, whatever the order in
\* which 'processing' and 'completed' responses arrive.
C23_ProgressMonotonic ==
    [][/\ vpProgress' \in 0..100
       /\ (vpOp' = "statusArrives" /\ vpResp'.id = vpVideoId /\ vpVideoId' = vpVideoId)
             => vpProgress' >= vpProgress]_vars

\* C26: whenever no job exists (videoId is null) and no create request is in
\* flight, the loading flag is false, so the create button accepts a submit.
C26_IdleNotLoading == (vpVideoId = 0 /\ vpCreates = 0) => ~vpLoading

(***************************************************************************)
(* Properties of VideoDownload.                                            *)
(***************************************************************************)
\* C24: the locator a completed job's artifact is saved from is the cloud
\* reference whenever one is present, and the local one only when there is
\* no cloud reference.
C24_CloudPreferred ==
    (dlOp = "handleDownload" /\ dlStatus = "completed") =>
        dlSaved = IF dlCloudDownloadUrl # "" THEN dlCloudDownloadUrl
                  ELSE dlDownloadUrl

\* C25: download, copy link and share are no-ops that surface an error when
\* the job's status is not completed: nothing is saved, copied or shared
\* while the status is processing, failed or unknown.
C25_NoOpUnlessCompleted ==
    (dlOp \in {"handleDownload", "handleCopyLink", "handleShare"}
     /\ dlStatus # "completed") => dlDid = {"error"}

(***************************************************************************)
(* Properties of VideoTimeline, continued.                                 *)
(***************************************************************************)
\* scene i contains time t: its interval is half-open, and the last scene
\* also contains the end of the timeline
SceneContains(s, i, t) ==
    /\ i \in 0..(Len(s) - 1)
    /\ \/ startTime(s, i) <= t /\ t < endTime(s, i)
       \/ i = Len(s) - 1 /\ t = Total(s)

\* C27: whenever no drag is in progress, the index last published through
\* onSceneChange is the index of the scene that contains currentTime.
C27_PublishedMatchesTime ==
    (~isDragging /\ Len(script) > 0) =>
        SceneContains(script, currentScene, currentTime)

\* C28: every index passed to onSceneChange is a non-negative integer
\* smaller than max(n, 1), n being the number of scenes.
C28_PublishedInRange ==
    \A k \in 1..Len(tlCalls) :
        tlCalls[k] >= 0 /\ tlCalls[k] < Max(Len(script), 1)

(***************************************************************************)
(* Properties of VideoExport, continued.                                   *)
(***************************************************************************)
\* C29: at most one polling timer exists, pollingIntervalRef holds a timer
\* exactly when one exists, and no timer is leaked: stopPolling, which is
\* also the cleanup run at unmount, leaves no timer behind.
C29_SingleTimer ==
    /\ exTimers <= 1
    /\ exIntervalRef <=> exTimers = 1
    /\ stopPolling(exPolling).timers = 0
    /\ ~stopPolling(exPolling).ref

\* handleRetry has called startPolling while the poller was running
C29_Witness ==
    /\ exOp = "handleRetry"
    /\ exVideoInfo = "failed"
    /\ exIntervalRef
    /\ exTimers = 1

(***************************************************************************)
(* Properties of appReducer.                                               *)
(***************************************************************************)
\* the slice an action type addresses
SliceOf(t) ==
    CASE t \in {"SET_LOADING", "SET_ERROR", "CLEAR_ERROR", "SET_CURRENT_STEP",
                "ADD_NOTIFICATION", "REMOVE_NOTIFICATION"} -> "app"
      [] t \in {"SET_PROJECT", "UPDATE_PROJECT", "SET_SCRIPT", "SET_VIDEO_CONFIG",
                "SET_VIDEO_ID", "MARK_PROJECT_DIRTY", "MARK_PROJECT_CLEAN"} -> "project"
      [] t \in {"SET_ACTIVE_TAB", "UPDATE_TIMELINE", "UPDATE_TEXT_STYLE",
                "SET_ASSETS", "ADD_ASSET", "REMOVE_ASSET", "SELECT_ASSETS"} -> "editor"
      [] t \in {"UPDATE_PREVIEW", "SET_PREVIEW_STATUS", "SET_PREVIEW_PROGRESS"} -> "preview"
      [] t = "UPDATE_USER_PREFERENCES" -> "user"
      [] OTHER -> "none"

\* C30: every dispatched action leaves the four slices it does not address
\* as they were, and an action whose type is not in ActionTypes leaves the
\* whole state as it was.
C30_OneSliceChanges ==
    [][stCount' # stCount =>
          /\ \A slice \in Slices \ {SliceOf(stOp')} : stState'[slice] = stState[slice]
          /\ DOMAIN stState' = Slices
          /\ stOp' \notin ActionTypes => stState' = stState]_vars

\* SET_SCRIPT was dispatched after the app and preview slices had changed
C30_Witness ==
    /\ stOp = "SET_SCRIPT"
    /\ stState.project.script = "s"
    /\ stState.app # initialState.app
    /\ stState.preview # initialState.preview

====
